---- MODULE Spec2Model ----
(***************************************************************************)
(* Model of the exa-mcp-server: the tool registry, the activation          *)
(* selectors (ExaServer.setupTools and registerEnabledTools), the process  *)
(* start-up of the registry-based server (index.ts 0.3.2), the tool        *)
(* handler template, and the caching server (index.ts 0.1.0).              *)
(***************************************************************************)
EXTENDS Integers, Sequences, FiniteSets, TLC

VARIABLES
    pc,              \* position of the process in its top-level code
    registry,        \* toolRegistry: entries in insertion order
    lastReg,         \* history: the last spec registered under each id
    overwrote,       \* history: some registration replaced a different spec
    argv,            \* parsed command line: [tools, listTools]
    apiKey,          \* process.env.EXA_API_KEY after dotenv.config()
    stdout,          \* blocks written with console.log
    stderr,          \* lines written with console.error outside tool handlers
    exitCode,        \* -1 while the process runs, else its exit status
    bound,           \* tool names bound into the McpServer
    registeredTools, \* ids returned by the activation selector
    selected,        \* the activation selector has run
    selector,        \* which selector implementation ran
    disabledTools,   \* exclude set handed to registerEnabledTools
    transport,       \* "none", "connected" or "failed"
    call,            \* the tool call in flight in the registry-based server
    lastResult,      \* what the last finished handler gave the transport layer
    recentSearches,  \* 0.1.0 server: cache of recent searches, newest first
    inflight,        \* 0.1.0 server: calls suspended at the upstream await
    calls,           \* handler calls suspended at their upstream await, by slot
    finished,        \* what the handler call that returned last did
    activeRequests   \* 0.2.1 server: the activeRequests set

vars == <<pc, registry, lastReg, overwrote, argv, apiKey, stdout, stderr, exitCode,
          bound, registeredTools, selected, selector, disabledTools, transport,
          call, lastResult, recentSearches, inflight, calls, finished,
          activeRequests>>

\* the variables only the concurrent handler calls change
handlerVars == <<calls, finished, activeRequests>>

-----------------------------------------------------------------------------
(* Bounds *)

\* number of distinct tool ids that registration units may use
MaxTools == 2

\* number of call slots of the 0.1.0 server that may be suspended at once
MaxInFlight == 2

-----------------------------------------------------------------------------
(* Tool ids of the repository, in a fixed enumeration *)

AllToolIds ==
    <<"web_search", "research_paper_search", "twitter_search",
      "company_research", "crawling", "competitor_finder", "exa_search">>

ToolIds == {AllToolIds[i] : i \in 1..MaxTools}

\* an id no registration unit ever uses
UnknownId == "no_such_tool"

\* what --tools (and an exclude set) may name
CliIds == ToolIds \cup {UnknownId}

\* a registration unit assigns toolRegistry[id] = {name, ..., enabled};
\* every unit of the repository uses its key as the name
ToolSpecs == [id : ToolIds, name : ToolIds, enabled : BOOLEAN]

\* the registration units, broken: a unit may give its tool a name other
\* than its key
UnitsAnyName == ToolSpecs

Units == {u \in ToolSpecs : u.name = u.id}

-----------------------------------------------------------------------------
(* Tool registry: a JavaScript object used as an insertion-ordered map *)

RegistryIds(reg) == {reg[i].id : i \in 1..Len(reg)}

RegistryEntries(reg) == {reg[i] : i \in 1..Len(reg)}

\* toolRegistry[id] = spec, broken: an existing key keeps its old value
RegistryPutKeepFirst(reg, spec) ==
    IF spec.id \in RegistryIds(reg) THEN reg ELSE Append(reg, spec)

\* toolRegistry[id] = spec: an existing key keeps its position and takes the
\* new value, a new key goes last
RegistryPut(reg, spec) ==
    IF spec.id \in RegistryIds(reg)
    THEN [i \in 1..Len(reg) |-> IF reg[i].id = spec.id THEN spec ELSE reg[i]]
    ELSE Append(reg, spec)

\* Object.entries(toolRegistry), broken: the entries newest first
ObjectEntriesReversed(reg) == [i \in 1..Len(reg) |-> reg[Len(reg) + 1 - i]]

\* Object.entries(toolRegistry): the entries in insertion order
ObjectEntries(reg) == reg

-----------------------------------------------------------------------------
(* Activation selectors *)

\* McpServer.tool(name, description, schema, handler): binds the name
ServerTool(b, name) == b \cup {name}

\* shouldRegister, broken: with no --tools every registered tool is taken
ShouldRegisterAllByDefault(specifiedTools, tool) ==
    IF Cardinality(specifiedTools) > 0
    THEN tool.id \in specifiedTools
    ELSE TRUE

\* shouldRegister, broken: the defaults are added to an explicit selection
ShouldRegisterPlusDefaults(specifiedTools, tool) ==
    tool.id \in specifiedTools \/ tool.enabled

\* shouldRegister of ExaServer.setupTools
ShouldRegister(specifiedTools, tool) ==
    IF Cardinality(specifiedTools) > 0
    THEN tool.id \in specifiedTools
    ELSE tool.enabled

RECURSIVE SetupToolsFrom(_, _, _, _)
SetupToolsFrom(entries, specifiedTools, i, acc) ==
    IF i > Len(entries)
    THEN acc
    ELSE LET tool == entries[i]
         IN  IF ShouldRegister(specifiedTools, tool)
             THEN SetupToolsFrom(entries, specifiedTools, i + 1,
                      [bound |-> ServerTool(acc.bound, tool.name),
                       registeredTools |-> Append(acc.registeredTools, tool.id)])
             ELSE SetupToolsFrom(entries, specifiedTools, i + 1, acc)

\* ExaServer.setupTools on a server with the names b0 bound: the names bound
\* afterwards and the returned ids
SetupTools(reg, specifiedTools, b0) ==
    SetupToolsFrom(ObjectEntries(reg), specifiedTools, 1,
                   [bound |-> b0, registeredTools |-> <<>>])

\* shouldRegister of registerEnabledTools, broken: an explicitly enabled id
\* escapes the exclude set
ShouldRegisterEnabledIncludeWins(enabledTools, disabled, tool) ==
    tool.id \in enabledTools
    \/ (Cardinality(enabledTools) = 0 /\ tool.enabled /\ tool.id \notin disabled)

\* shouldRegister of registerEnabledTools
ShouldRegisterEnabled(enabledTools, disabled, tool) ==
    (tool.id \in enabledTools \/ (Cardinality(enabledTools) = 0 /\ tool.enabled))
    /\ tool.id \notin disabled

RECURSIVE RegisterEnabledToolsFrom(_, _, _, _, _)
RegisterEnabledToolsFrom(entries, enabledTools, disabled, i, acc) ==
    IF i > Len(entries)
    THEN acc
    ELSE LET tool == entries[i]
         IN  IF ShouldRegisterEnabled(enabledTools, disabled, tool)
             THEN RegisterEnabledToolsFrom(entries, enabledTools, disabled, i + 1,
                      [bound |-> ServerTool(acc.bound, tool.name),
                       registeredTools |-> Append(acc.registeredTools, tool.id)])
             ELSE RegisterEnabledToolsFrom(entries, enabledTools, disabled, i + 1, acc)

\* registerEnabledTools(server, enabledTools, disabledTools)
RegisterEnabledTools(reg, enabledTools, disabled, b0) ==
    RegisterEnabledToolsFrom(ObjectEntries(reg), enabledTools, disabled, 1,
                             [bound |-> b0, registeredTools |-> <<>>])

-----------------------------------------------------------------------------
(* The upstream API as the handlers see it *)

\* HTTP statuses with which the upstream API may refuse a request
HttpErrorStatuses == {429, 500}

\* response.data.message of an upstream error body that carries one
UpstreamMessage == "Rate limit exceeded"

\* AxiosError.message of a request answered with an error status
StatusErrorMessage(status) ==
    <<"Request failed with status code ", ToString(status)>>

\* AxiosError.message of a request that got no response
NoResponseMessages == {<<"timeout of 25000ms exceeded">>, <<"Network Error">>}

\* every way the awaited axiosInstance.post(...) can settle, and a
\* non-axios error thrown inside the try block.
\*   ok:      body says what response.data holds
\*   axios:   status 0 stands for "no response" (error.response undefined)
\*   generic: any other thrown value
OkOutcomes ==
    {[kind |-> "ok", status |-> 200, body |-> b, message |-> <<>>] :
        b \in {"nodata", "noresults", "empty", "nonempty"}}

AxiosOutcomes ==
    {[kind |-> "axios", status |-> s, body |-> b, message |-> StatusErrorMessage(s)] :
        s \in HttpErrorStatuses, b \in {"message", "nomessage"}}
    \cup
    {[kind |-> "axios", status |-> 0, body |-> "noresponse", message |-> m] :
        m \in NoResponseMessages}

GenericOutcomes ==
    {[kind |-> "generic", status |-> 0, body |-> "", message |-> <<"boom">>]}

Outcomes == OkOutcomes \cup AxiosOutcomes \cup GenericOutcomes

NoOutcome == [kind |-> "none", status |-> 0, body |-> "", message |-> <<>>]

\* JSON.stringify(response.data, null, 2)
Stringify(body) == <<"{\"results\": ", body, "}">>

-----------------------------------------------------------------------------
(* What a handler hands to the transport layer: a returned value            *)
(* {content: [{type: "text", text}], isError?} or a thrown error.           *)
(* isError = FALSE stands for an absent flag; cause is the upstream outcome *)
(* the call met.                                                            *)

Returned(text, isError, cause) ==
    [via |-> "return", text |-> text, isError |-> isError, err |-> "", cause |-> cause]

Thrown(text, err, cause) ==
    [via |-> "throw", text |-> text, isError |-> FALSE, err |-> err, cause |-> cause]

NoResult ==
    [via |-> "none", text |-> <<>>, isError |-> FALSE, err |-> "", cause |-> NoOutcome]

\* the text holds the token
Contains(text, token) == \E i \in 1..Len(text) : text[i] = token

-----------------------------------------------------------------------------
(* Handler template of the registry tools *)

\* the tool's name in its error texts
ErrorPrefix(tool) ==
    CASE tool = "web_search" -> "Search error"
      [] tool = "exa_search" -> "Search error"
      [] tool = "research_paper_search" -> "Research paper search error"
      [] tool = "twitter_search" -> "Twitter search error"
      [] tool = "company_research" -> "Company research error"
      [] tool = "crawling" -> "Crawling error"
      [] tool = "competitor_finder" -> "Competitor finder error"
      [] tool = "search" -> "Search error"

\* the tool's text for a response without results
NoResultsText(tool) ==
    CASE tool = "web_search" -> "No search results found. Please try a different query."
      [] tool = "exa_search" -> "No search results found. Please try a different query."
      [] tool = "research_paper_search" -> "No research papers found. Please try a different query."
      [] tool = "twitter_search" -> "No Twitter results found. Please try a different query."
      [] tool = "company_research" -> "No company information found. Please try a different query."
      [] tool = "crawling" -> "No content found at the specified URL. Please check the URL and try again."
      [] tool = "competitor_finder" -> "No competitors found. Please try a different query."
      [] tool = "search" -> "No search results found. Please try a different query."

\* !response.data || !response.data.results
\* (crawling adds: || response.data.results.length === 0)
IsEmptyResponse(tool, body) ==
    \/ body = "nodata"
    \/ body = "noresults"
    \/ (tool = "crawling" /\ body = "empty")

\* error.response?.status || 'unknown'
StatusCode(o) == IF o.status # 0 THEN ToString(o.status) ELSE "unknown"

\* error.response?.data?.message || error.message
ErrorMessage(o) == IF o.body = "message" THEN <<UpstreamMessage>> ELSE o.message

\* the catch block, broken: an error that is not an axios error is thrown on
HandlerCatchRethrow(tool, o) ==
    IF o.kind = "axios"
    THEN Returned(<<ErrorPrefix(tool), " (", StatusCode(o), "): ">> \o ErrorMessage(o),
                  TRUE, o)
    ELSE Thrown(o.message, "Error", o)

\* the catch block of a registry tool's handler
HandlerCatch(tool, o) ==
    IF o.kind = "axios"
    THEN Returned(<<ErrorPrefix(tool), " (", StatusCode(o), "): ">> \o ErrorMessage(o),
                  TRUE, o)
    ELSE Returned(<<ErrorPrefix(tool), ": ">> \o o.message, TRUE, o)

\* what a registry tool's handler gives back once the upstream await settles
HandlerReturn(tool, o) ==
    IF o.kind = "ok"
    THEN IF IsEmptyResponse(tool, o.body)
         THEN Returned(<<NoResultsText(tool)>>, FALSE, o)
         ELSE Returned(Stringify(o.body), FALSE, o)
    ELSE HandlerCatch(tool, o)

-----------------------------------------------------------------------------
(* JavaScript values, handler arguments and upstream requests *)

Queries == {"q1", "q2"}

\* JavaScript values as the argument checks see them
JsUndefined == [t |-> "undefined", s |-> "", n |-> 0]

JsString(x) == [t |-> "string", s |-> x, n |-> 0]

JsNumber(k) == [t |-> "number", s |-> "", n |-> k]

\* an array of strings, and the absent array
JsArray(items) == [t |-> "array", items |-> items]

JsNoArray == [t |-> "undefined", items |-> <<>>]

\* numResults || DEFAULT: undefined and 0 are falsy
NumResultsOr(v, default) == IF v.t = "number" /\ v.n # 0 THEN v.n ELSE default

\* truthiness of a value: undefined, 0 and "" are falsy
Truthy(v) ==
    \/ (v.t = "number" /\ v.n # 0)
    \/ (v.t = "string" /\ v.s # "")

\* API_CONFIG of the registry tools
DEFAULT_NUM_RESULTS == 5

DEFAULT_MAX_CHARACTERS == 3000

SEARCH == "/search"

\* the timeout given to axios.create and to post, in milliseconds
PostTimeout == 25000

\* the arguments a handler destructures; a property the caller left out, or
\* that the tool's schema does not have, is undefined
NoArgs ==
    [query |-> JsUndefined, url |-> JsUndefined, numResults |-> JsUndefined,
     livecrawl |-> JsUndefined, subpages |-> JsUndefined,
     subpageTarget |-> JsNoArray, excludeDomain |-> JsUndefined,
     startPublishedDate |-> JsUndefined, endPublishedDate |-> JsUndefined]

\* a request body with no property set, and the endpoint it is posted to
NoSearchRequest ==
    [endpoint |-> "", query |-> JsUndefined, type |-> JsUndefined,
     category |-> JsUndefined, includeDomains |-> JsNoArray,
     excludeDomains |-> JsNoArray, numResults |-> JsUndefined,
     maxCharacters |-> JsUndefined, livecrawl |-> JsUndefined,
     subpages |-> JsUndefined, subpageTarget |-> JsNoArray,
     startPublishedDate |-> JsUndefined, endPublishedDate |-> JsUndefined,
     ids |-> JsNoArray, text |-> FALSE, timeout |-> 0]

\* the part all search requests of the registry tools share
BaseSearchRequest(query) ==
    [NoSearchRequest EXCEPT
        !.endpoint = SEARCH,
        !.query = query,
        !.type = JsString("auto"),
        !.maxCharacters = JsNumber(DEFAULT_MAX_CHARACTERS),
        !.livecrawl = JsString("always"),
        !.timeout = PostTimeout]

\* value || fallback
OrElse(v, fallback) == IF Truthy(v) THEN v ELSE fallback

\* searchRequest of web_search, broken: the default count of the 0.1.0 server
WebSearchRequestOldDefault(args) ==
    [BaseSearchRequest(args.query) EXCEPT
        !.numResults = OrElse(args.numResults, JsNumber(10))]

\* searchRequest of the web_search handler
WebSearchRequest(args) ==
    [BaseSearchRequest(args.query) EXCEPT
        !.numResults = OrElse(args.numResults, JsNumber(DEFAULT_NUM_RESULTS))]

\* searchRequest of the research_paper_search handler
ResearchPaperRequest(args) ==
    [BaseSearchRequest(args.query) EXCEPT
        !.category = JsString("research paper"),
        !.numResults = OrElse(args.numResults, JsNumber(DEFAULT_NUM_RESULTS)),
        !.livecrawl = JsString("fallback")]

\* searchRequest of the twitter_search handler, date filters included
TwitterRequest(args) ==
    [BaseSearchRequest(args.query) EXCEPT
        !.includeDomains = JsArray(<<"x.com", "twitter.com">>),
        !.numResults = OrElse(args.numResults, JsNumber(DEFAULT_NUM_RESULTS)),
        !.startPublishedDate = OrElse(args.startPublishedDate, JsUndefined),
        !.endPublishedDate = OrElse(args.endPublishedDate, JsUndefined)]

\* subpageTarget && subpageTarget.length > 0
HasTargets(v) == v.t = "array" /\ Len(v.items) > 0

\* searchRequest of the company_research handler, subpage targets included
CompanyRequest(args) ==
    [BaseSearchRequest(args.query) EXCEPT
        !.category = JsString("company"),
        !.includeDomains = JsArray(<<args.query.s>>),
        !.numResults = JsNumber(1),
        !.subpages = OrElse(args.subpages, JsNumber(10)),
        !.subpageTarget = IF HasTargets(args.subpageTarget)
                          THEN args.subpageTarget ELSE JsNoArray]

\* searchRequest of the competitor_finder handler, excluded domain included
CompetitorRequest(args) ==
    [BaseSearchRequest(args.query) EXCEPT
        !.numResults = OrElse(args.numResults, JsNumber(10)),
        !.excludeDomains = IF Truthy(args.excludeDomain)
                           THEN JsArray(<<args.excludeDomain.s>>) ELSE JsNoArray]

\* crawlRequest of the crawling handler, posted to /contents
CrawlRequest(args) ==
    [NoSearchRequest EXCEPT
        !.endpoint = "/contents",
        !.ids = JsArray(<<args.url.s>>),
        !.text = TRUE,
        !.livecrawl = JsString("always"),
        !.timeout = PostTimeout]

\* searchRequest of the 0.2.1 server's search tool
SearchRequestV2(args) ==
    [BaseSearchRequest(args.query) EXCEPT
        !.numResults = OrElse(args.numResults, JsNumber(DEFAULT_NUM_RESULTS)),
        !.livecrawl = OrElse(args.livecrawl, JsString("always"))]

\* the tools whose handlers are modelled call by call: the six registry
\* tools of the repository and the 0.2.1 server's "search"
HandlerTools ==
    {"web_search", "research_paper_search", "twitter_search",
     "company_research", "crawling", "competitor_finder", "search"}

\* the request body a tool's handler posts for the given arguments
RequestOf(tool, args) ==
    CASE tool = "web_search" -> WebSearchRequest(args)
      [] tool = "research_paper_search" -> ResearchPaperRequest(args)
      [] tool = "twitter_search" -> TwitterRequest(args)
      [] tool = "company_research" -> CompanyRequest(args)
      [] tool = "competitor_finder" -> CompetitorRequest(args)
      [] tool = "crawling" -> CrawlRequest(args)
      [] tool = "search" -> SearchRequestV2(args)

-----------------------------------------------------------------------------
(* The process streams *)

\* console.error(...parts): one line on the error stream
ConsoleError(parts) == [stream |-> "stderr", text |-> parts]

\* log(message): console.error(`[EXA-MCP-DEBUG] ${message}`)
Log(message) == ConsoleError(<<"[EXA-MCP-DEBUG] ">> \o message)

-----------------------------------------------------------------------------
(* What a handler writes through its per-call logger *)

\* one line: the logger function that wrote it and its message
Line(fn, msg) == [fn |-> fn, msg |-> msg]

\* query.includes('http')
IncludesHttp(q) == q \in {"https://www.exa.ai/about", "http://"}

\* new URL(query) succeeds
UrlParses(q) == q = "https://www.exa.ai/about"

\* new URL(query).hostname.replace('www.', '')
HostnameWithoutWww(q) == IF q = "https://www.exa.ai/about" THEN "exa.ai" ELSE q

\* the domain the company_research handler extracts from its query
DomainOf(q) == IF IncludesHttp(q) /\ UrlParses(q) THEN HostnameWithoutWww(q) ELSE q

\* a line that is written only under a condition
LineIf(cond, fn, msg) == IF cond THEN <<Line(fn, msg)>> ELSE <<>>

\* the lines of a handler from its first statement to its post.  The
\* registry tools start with logger.start, the 0.2.1 tool with a plain log
\* line "Starting search"
LogBeforePost(tool, args) ==
    CASE tool = "web_search" ->
           <<Line("start", <<args.query.s>>),
             Line("log", <<"Sending request to Exa API">>)>>
      [] tool = "research_paper_search" ->
           <<Line("start", <<args.query.s>>),
             Line("log", <<"Sending research paper request to Exa API">>)>>
      [] tool = "twitter_search" ->
           <<Line("start", <<args.query.s>>)>>
           \o LineIf(Truthy(args.startPublishedDate), "log",
                     <<"Filtering tweets after: ", args.startPublishedDate.s>>)
           \o LineIf(Truthy(args.endPublishedDate), "log",
                     <<"Filtering tweets before: ", args.endPublishedDate.s>>)
           \o <<Line("log", <<"Sending Twitter search request to Exa API">>)>>
      [] tool = "company_research" ->
           <<Line("start", <<args.query.s>>)>>
           \o LineIf(IncludesHttp(args.query.s) /\ ~UrlParses(args.query.s), "log",
                     <<"Warning: Could not parse URL from query: ", args.query.s>>)
           \o LineIf(HasTargets(args.subpageTarget), "log",
                     <<"Targeting specific sections: ">> \o args.subpageTarget.items)
           \o <<Line("log", <<"Researching company: ", DomainOf(args.query.s)>>),
                Line("log", <<"Sending company research request to Exa API">>)>>
      [] tool = "crawling" ->
           <<Line("start", <<args.url.s>>),
             Line("log", <<"Crawling URL: ", args.url.s>>),
             Line("log", <<"Sending crawling request to Exa API">>)>>
      [] tool = "competitor_finder" ->
           <<Line("start", <<args.query.s>>)>>
           \o LineIf(Truthy(args.excludeDomain), "log",
                     <<"Excluding domain: ", args.excludeDomain.s>>)
           \o <<Line("log", <<"Finding competitors for: ", args.query.s>>),
                Line("log", <<"Sending competitor finder request to Exa API">>)>>
      [] tool = "search" ->
           <<Line("start", <<args.query.s>>),
             Line("log", <<"Sending request to Exa API">>)>>

\* the lines of the try block after the post resolved
LogAfterResponse(tool, o) ==
    <<Line("log", <<"Received response from Exa API">>)>>
    \o (IF IsEmptyResponse(tool, o.body)
        THEN <<Line("log", <<"Warning: Empty or invalid response from Exa API">>)>>
        ELSE <<Line("log", <<"Found results">>), Line("complete", <<>>)>>)

\* the lines of the catch block
LogInCatch(tool, o) ==
    <<Line("error", o.message)>>
    \o LineIf(o.kind = "axios", "log",
              <<"Axios error (", StatusCode(o), "): ">> \o ErrorMessage(o))

\* the lines of a handler after its await settled with o
LogAfterSettle(tool, o) ==
    IF o.kind = "ok" THEN LogAfterResponse(tool, o) ELSE LogInCatch(tool, o)

\* createRequestLogger(requestId, toolName): the line each logger function
\* hands to log
RequestLoggerLine(requestId, toolName, line) ==
    LET head == <<"[", requestId, "] [", toolName, "] ">>
    IN  CASE line.fn = "log" -> Log(head \o line.msg)
          [] line.fn = "start" ->
               Log(head \o <<"Starting search for query: \"">> \o line.msg \o <<"\"">>)
          [] line.fn = "error" -> Log(head \o <<"Error: ">> \o line.msg)
          [] line.fn = "complete" ->
               Log(head \o <<"Successfully completed request">>)

-----------------------------------------------------------------------------
(* Calls of the tool handlers: one record per call, from the handler's      *)
(* first statement to its return                                            *)

\* schema-valid values of an optional number: omitted, 0, a positive count
OptionalNumbers == {JsUndefined, JsNumber(0), JsNumber(3)}

\* queries of the company_research tool: a bare domain, a full URL, and a
\* string that holds "http" but is no URL
CompanyQueries == {"exa.ai", "https://www.exa.ai/about", "http://"}

WithQuery(q) == [NoArgs EXCEPT !.query = JsString(q)]

\* the schema-valid arguments of each tool (zod strips the properties a
\* tool's schema does not have before the handler runs)
ArgsOf(tool) ==
    CASE tool \in {"web_search", "research_paper_search"} ->
           {[WithQuery(q) EXCEPT !.numResults = n] :
               q \in Queries, n \in OptionalNumbers}
      [] tool = "twitter_search" ->
           {[WithQuery(q) EXCEPT !.numResults = n,
                                 !.startPublishedDate = d1,
                                 !.endPublishedDate = d2] :
               q \in Queries, n \in OptionalNumbers,
               d1 \in {JsUndefined, JsString("2023-04-01T00:00:00.000Z")},
               d2 \in {JsUndefined, JsString("2023-04-30T23:59:59.999Z")}}
      [] tool = "company_research" ->
           {[WithQuery(q) EXCEPT !.subpages = n, !.subpageTarget = t] :
               q \in CompanyQueries, n \in OptionalNumbers,
               t \in {JsNoArray, JsArray(<<>>), JsArray(<<"about", "pricing">>)}}
      [] tool = "competitor_finder" ->
           {[WithQuery(q) EXCEPT !.numResults = n, !.excludeDomain = d] :
               q \in Queries, n \in OptionalNumbers,
               d \in {JsUndefined, JsString("exa.ai")}}
      [] tool = "crawling" ->
           {[NoArgs EXCEPT !.url = JsString(u)] : u \in {"exa.ai", "q2"}}
      [] tool = "search" ->
           {[WithQuery(q) EXCEPT !.numResults = n, !.livecrawl = l] :
               q \in Queries, n \in OptionalNumbers,
               l \in {JsUndefined, JsString("always"), JsString("fallback")}}

\* the arguments used where calls run concurrently: the calls differ in
\* their query (or url), every optional property is left out
ConcurrentArgsOf(tool) ==
    {a \in ArgsOf(tool) :
        /\ a.numResults = JsUndefined
        /\ a.livecrawl = JsUndefined
        /\ a.excludeDomain = JsUndefined
        /\ a.startPublishedDate = JsUndefined
        /\ a.endPublishedDate = JsUndefined
        /\ a.subpages = JsUndefined
        /\ a.subpageTarget = JsNoArray}

\* a call slot with no call in it
IdleSlot ==
    [st |-> "idle", tool |-> "", args |-> NoArgs, requestId |-> "",
     request |-> NoSearchRequest, posts |-> 0, log |-> <<>>]

\* the response a post resolves or rejects with: the request the upstream
\* answered and how it answered
NoResponse == [for |-> NoSearchRequest, outcome |-> NoOutcome]

NothingFinished ==
    [tool |-> "", args |-> NoArgs, requestId |-> "", request |-> NoSearchRequest,
     posts |-> 0, log |-> <<>>, response |-> NoResponse, result |-> NoResult]

\* state of the handler calls while a program without them runs
HandlersIdle ==
    /\ calls = [s \in 1..MaxInFlight |-> IdleSlot]
    /\ finished = NothingFinished
    /\ activeRequests = {}

\* the handler from its first statement to its await: the logger, the axios
\* instance, the request, one axiosInstance.post
CallUpToAwait(tool, args, requestId) ==
    [st |-> "await", tool |-> tool, args |-> args, requestId |-> requestId,
     request |-> RequestOf(tool, args), posts |-> 1,
     log |-> LogBeforePost(tool, args)]

\* the awaited response, broken: one client shared by all calls hands every
\* await the answer to the request posted last
ResponseToLastPosted(cs, slot, o) ==
    LET last == CHOOSE s \in 1..MaxInFlight :
                    /\ cs[s].st = "await"
                    /\ \A t \in 1..MaxInFlight : cs[t].st = "await" => t <= s
    IN  [for |-> cs[last].request, outcome |-> o]

\* the response the await of the call in the slot receives: the answer to
\* the request this call posted on its own axios instance
ResponseTo(cs, slot, o) == [for |-> cs[slot].request, outcome |-> o]

\* posts after the await, broken: a rejected post is sent once more
PostsAfterSettleRetry(o) == IF o.kind = "axios" THEN 1 ELSE 0

\* posts issued after the await settled: neither the try block nor the catch
\* block posts again
PostsAfterSettle(o) == 0

\* the call in the slot after its await settled with o
CallReturned(cs, slot, o) ==
    LET c == cs[slot]
        response == ResponseTo(cs, slot, o)
    IN  [tool |-> c.tool, args |-> c.args, requestId |-> c.requestId,
         request |-> c.request,
         posts |-> c.posts + PostsAfterSettle(response.outcome),
         log |-> c.log \o LogAfterSettle(c.tool, response.outcome),
         response |-> response,
         result |-> HandlerReturn(c.tool, response.outcome)]

-----------------------------------------------------------------------------
(* The registry-based server (index.ts 0.3.2): process start to serving *)

IdleCall == [st |-> "idle", tool |-> ""]

\* state of everything the 0.1.0 server owns while another program runs
CacheUnused ==
    /\ recentSearches = <<>>
    /\ inflight = [s \in 1..MaxInFlight |->
                     [st |-> "idle", searchRequest |-> [query |-> "", numResults |-> 0]]]

Init ==
    /\ pc = "import"
    /\ registry = <<>>
    /\ lastReg = {}
    /\ overwrote = FALSE
    /\ argv \in [tools : SUBSET CliIds, listTools : BOOLEAN]
    /\ apiKey \in {"unset", "", "key"}
    /\ stdout = <<>>
    /\ stderr = <<>>
    /\ exitCode = -1
    /\ bound = {}
    /\ registeredTools = <<>>
    /\ selected = FALSE
    /\ selector = "none"
    /\ disabledTools = {}
    /\ transport = "none"
    /\ call = IdleCall
    /\ lastResult = NoResult
    /\ CacheUnused
    /\ HandlersIdle

\* a registration unit runs: toolRegistry[u.id] = u
Register(u) ==
    /\ pc = "import"
    /\ registry' = RegistryPut(registry, u)
    /\ lastReg' = {e \in lastReg : e.id # u.id} \cup {u}
    /\ overwrote' = (overwrote \/ \E e \in RegistryEntries(registry) :
                                     e.id = u.id /\ e # u)
    /\ UNCHANGED <<handlerVars, pc, argv, apiKey, stdout, stderr, exitCode, bound, registeredTools,
                   selected, selector, disabledTools, transport, call, lastResult,
                   recentSearches, inflight>>

\* the imports are done; dotenv.config() and yargs read the environment and
\* the command line
ParseArgs ==
    /\ pc = "import"
    /\ pc' = "parsed"
    /\ UNCHANGED <<handlerVars, registry, lastReg, overwrote, argv, apiKey, stdout, stderr, exitCode,
                   bound, registeredTools, selected, selector, disabledTools,
                   transport, call, lastResult, recentSearches, inflight>>

\* !API_KEY, broken: only an unset variable counts as missing
ApiKeyMissingUnsetOnly(key) == key = "unset"

\* !API_KEY: undefined and the empty string are both falsy
ApiKeyMissing(key) == key \in {"unset", ""}

\* the top-level code, broken: the API key is checked before --list-tools
TopLevelBranchKeyFirst(listTools, key) ==
    IF ApiKeyMissing(key) THEN "throw"
    ELSE IF listTools THEN "list"
    ELSE "run"

\* the top-level code after the command line is parsed: the --list-tools
\* branch comes first, then the API key check, then the server is built
TopLevelBranch(listTools, key) ==
    IF listTools THEN "list"
    ELSE IF ApiKeyMissing(key) THEN "throw"
    ELSE "run"

\* one console.log block per entry of Object.entries(toolRegistry)
ListingBlocks(reg) ==
    [i \in 1..Len(ObjectEntries(reg)) |->
        [id |-> ObjectEntries(reg)[i].id,
         name |-> ObjectEntries(reg)[i].name,
         enabledByDefault |-> IF ObjectEntries(reg)[i].enabled THEN "Yes" ELSE "No"]]

\* if (argv['list-tools']) { ...; process.exit(0) }
ListTools ==
    /\ pc = "parsed"
    /\ TopLevelBranch(argv.listTools, apiKey) = "list"
    /\ stdout' = stdout \o ListingBlocks(registry)
    /\ exitCode' = 0
    /\ pc' = "exited"
    /\ UNCHANGED <<handlerVars, registry, lastReg, overwrote, argv, apiKey, stderr, bound,
                   registeredTools, selected, selector, disabledTools, transport,
                   call, lastResult, recentSearches, inflight>>

\* if (!API_KEY) throw new Error(...): an uncaught error at module top level
\* ends the process with status 1
ThrowMissingApiKey ==
    /\ pc = "parsed"
    /\ TopLevelBranch(argv.listTools, apiKey) = "throw"
    /\ exitCode' = 1
    /\ pc' = "exited"
    /\ UNCHANGED <<handlerVars, registry, lastReg, overwrote, argv, apiKey, stdout, stderr, bound,
                   registeredTools, selected, selector, disabledTools, transport,
                   call, lastResult, recentSearches, inflight>>

\* const server = new ExaServer(): an McpServer with nothing bound
NewExaServer ==
    /\ pc = "parsed"
    /\ TopLevelBranch(argv.listTools, apiKey) = "run"
    /\ bound' = {}
    /\ pc' = "run"
    /\ stderr' = Append(stderr, Log(<<"Server initialized">>))
    /\ UNCHANGED <<handlerVars, registry, lastReg, overwrote, argv, apiKey, stdout, exitCode,
                   registeredTools, selected, selector, disabledTools, transport,
                   call, lastResult, recentSearches, inflight>>

\* run(): const registeredTools = this.setupTools()
RunSetupTools ==
    /\ pc = "run"
    /\ ~selected
    /\ LET r == SetupTools(registry, argv.tools, bound)
       IN  /\ bound' = r.bound
           /\ registeredTools' = r.registeredTools
    /\ selected' = TRUE
    /\ selector' = "setupTools"
    /\ stderr' = Append(stderr,
                        Log(<<"Starting Exa MCP server with ",
                              ToString(Len(SetupTools(registry, argv.tools, bound).registeredTools)),
                              " tools: ">>
                            \o SetupTools(registry, argv.tools, bound).registeredTools))
    /\ UNCHANGED <<handlerVars, pc, registry, lastReg, overwrote, argv, apiKey, stdout,
                   exitCode, disabledTools, transport, call, lastResult,
                   recentSearches, inflight>>

\* run(), broken: the transport is connected without waiting for setupTools
ConnectReadyEarly == pc = "run"

\* run(): the connect statement follows the setupTools statement
ConnectReady == pc = "run" /\ selected

\* run(): await this.server.connect(transport)
RunConnect ==
    /\ ConnectReady
    /\ transport = "none"
    /\ transport' = "connected"
    /\ pc' = "serving"
    /\ stderr' = Append(stderr, Log(<<"Exa Search MCP server running on stdio">>))
    /\ UNCHANGED <<handlerVars, registry, lastReg, overwrote, argv, apiKey, stdout, exitCode,
                   bound, registeredTools, selected, selector, disabledTools,
                   call, lastResult, recentSearches, inflight>>

\* run(): server.connect(transport) rejects; the catch logs and rethrows, and
\* the top-level catch ends the process with process.exit(1)
RunConnectFails ==
    /\ ConnectReady
    /\ transport = "none"
    /\ transport' = "failed"
    /\ exitCode' = 1
    /\ pc' = "exited"
    /\ stderr' = stderr \o <<Log(<<"Server initialization error: ", "connect failed">>),
                            Log(<<"Fatal server error: ", "connect failed">>)>>
    /\ UNCHANGED <<handlerVars, registry, lastReg, overwrote, argv, apiKey, stdout, bound,
                   registeredTools, selected, selector, disabledTools, call,
                   lastResult, recentSearches, inflight>>

\* the tools a call can be dispatched to
Dispatchable == bound

\* a tools/call request for a bound tool arrives: its handler runs up to the
\* upstream await
CallTool(name) ==
    /\ pc = "serving"
    /\ transport = "connected"
    /\ call.st = "idle"
    /\ name \in Dispatchable
    /\ call' = [st |-> "await", tool |-> name]
    /\ UNCHANGED <<handlerVars, pc, registry, lastReg, overwrote, argv, apiKey, stdout, stderr,
                   exitCode, bound, registeredTools, selected, selector,
                   disabledTools, transport, lastResult, recentSearches, inflight>>

\* the upstream await settles and the handler runs to its end
HandlerSettle(o) ==
    /\ pc = "serving"
    /\ call.st = "await"
    /\ lastResult' = HandlerReturn(call.tool, o)
    /\ call' = IdleCall
    /\ UNCHANGED <<handlerVars, pc, registry, lastReg, overwrote, argv, apiKey, stdout, stderr,
                   exitCode, bound, registeredTools, selected, selector,
                   disabledTools, transport, recentSearches, inflight>>

Next ==
    \/ \E u \in Units : Register(u)
    \/ ParseArgs
    \/ ListTools
    \/ ThrowMissingApiKey
    \/ NewExaServer
    \/ RunSetupTools
    \/ RunConnect
    \/ RunConnectFails
    \/ \E name \in ToolIds : CallTool(name)
    \/ \E o \in Outcomes : HandlerSettle(o)

Spec == Init /\ [][Next]_vars

-----------------------------------------------------------------------------
(* The two activation selectors applied to every registry and every        *)
(* include and exclude set                                                  *)

\* every registry the registration units can build
Registries ==
    {reg \in UNION {[1..n -> Units] : n \in 0..MaxTools} :
        \A i, j \in 1..Len(reg) : reg[i].id = reg[j].id => i = j}

\* a server just constructed, its registry populated, before run() selects
InitSel ==
    /\ pc = "run"
    /\ registry \in Registries
    /\ lastReg = RegistryEntries(registry)
    /\ overwrote = FALSE
    /\ argv \in [tools : SUBSET CliIds, listTools : {FALSE}]
    /\ apiKey = "key"
    /\ stdout = <<>>
    /\ stderr = <<>>
    /\ exitCode = -1
    /\ bound = {}
    /\ registeredTools = <<>>
    /\ selected = FALSE
    /\ selector = "none"
    /\ disabledTools \in SUBSET CliIds
    /\ transport = "none"
    /\ call = IdleCall
    /\ lastResult = NoResult
    /\ CacheUnused
    /\ HandlersIdle

\* registerEnabledTools(server, specifiedTools, disabledTools) in place of
\* this.setupTools()
CallRegisterEnabledTools ==
    /\ pc = "run"
    /\ ~selected
    /\ LET r == RegisterEnabledTools(registry, argv.tools, disabledTools, bound)
       IN  /\ bound' = r.bound
           /\ registeredTools' = r.registeredTools
    /\ selected' = TRUE
    /\ selector' = "registerEnabledTools"
    /\ UNCHANGED <<handlerVars, pc, registry, lastReg, overwrote, argv, apiKey, stdout, stderr,
                   exitCode, disabledTools, transport, call, lastResult,
                   recentSearches, inflight>>

NextSel ==
    \/ RunSetupTools
    \/ CallRegisterEnabledTools

SpecSel == InitSel /\ [][NextSel]_vars

-----------------------------------------------------------------------------
(* Claims about activation selection *)

\* the ids the selector returned
RegisteredIds == {registeredTools[i] : i \in 1..Len(registeredTools)}

\* the exclude set the selector that ran was given (setupTools takes none)
Exclusions == IF selector = "registerEnabledTools" THEN disabledTools ELSE {}

\* names of the registry entries with the given ids
NamesOf(ids) == {e.name : e \in {x \in RegistryEntries(registry) : x.id \in ids}}

DefaultEnabledIds == {e.id : e \in {x \in RegistryEntries(registry) : x.enabled}}

\* C1: with an empty include set the selector binds exactly the tools whose
\* enabled-by-default flag is true, minus the exclude set where the selector
\* takes one.
C1_EmptyIncludeSelectsDefaults ==
    (selected /\ argv.tools = {}) =>
        /\ RegisteredIds = DefaultEnabledIds \ Exclusions
        /\ bound = NamesOf(DefaultEnabledIds \ Exclusions)

\* tool A default-enabled, tool B default-disabled, no --tools: exactly {A}
C1_Witness ==
    /\ selected
    /\ argv.tools = {}
    /\ \E a, b \in RegistryEntries(registry) :
          /\ a.enabled /\ ~b.enabled
          /\ bound = {a.name}

C4_ExclusionDominates ==
    (selected /\ selector = "registerEnabledTools") =>
        /\ RegisteredIds \cap disabledTools = {}
        /\ bound \cap NamesOf(disabledTools) = {}

\* an id both included and excluded is left out while another tool is bound
C4_Witness ==
    /\ selected
    /\ selector = "registerEnabledTools"
    /\ \E x \in RegistryIds(registry) :
          x \in argv.tools /\ x \in disabledTools /\ x \notin RegisteredIds
    /\ bound # {}

-----------------------------------------------------------------------------
(* Claims about the start-up of the registry-based server *)

\* C3: when --tools names only ids that are not in the registry, selection
\* binds nothing, returns no id, raises no error, and start-up goes on to
\* connect the transport with zero tools bound (the process ends there only
\* if the connect itself fails).
C3_UnknownIncludeIgnored ==
    (selected /\ argv.tools # {} /\ argv.tools \cap RegistryIds(registry) = {}) =>
        /\ bound = {}
        /\ registeredTools = <<>>
        /\ (pc = "run" => (exitCode = -1 /\ ENABLED RunConnect))
        /\ (pc # "run" =>
              \/ (pc = "serving" /\ transport = "connected" /\ exitCode = -1)
              \/ (pc = "exited" /\ transport = "failed"))

\* serving with nothing bound although the registry has a default-enabled tool
C3_Witness ==
    /\ pc = "serving"
    /\ transport = "connected"
    /\ argv.tools = {UnknownId}
    /\ \E e \in RegistryEntries(registry) : e.enabled
    /\ bound = {}

\* C5: tools are bound only by the activation selector, the transport is
\* connected only after the selector has run, and once the transport is
\* connected the set of bound tools never changes (tool calls included).
C5_BindBeforeConnectThenFixed ==
    /\ [](bound # {} => (selected /\ bound = NamesOf(RegisteredIds)))
    /\ [](transport = "connected" => selected)
    /\ [][transport = "connected" => bound' = bound]_vars
    /\ [][bound' # bound => (~selected /\ selected' /\ transport' = "none")]_vars

\* a tool call has run to its end on a connected server with tools bound
C5_Witness ==
    /\ pc = "serving"
    /\ transport = "connected"
    /\ bound # {}
    /\ call.st = "idle"
    /\ lastResult.via = "return"

\* C6: with EXA_API_KEY unset or empty and no --list-tools, the process ends
\* with a non-zero status before a tool is bound, before the transport is
\* connected and before a call is accepted.
C6_MissingApiKeyFatal ==
    (apiKey \in {"unset", ""} /\ ~argv.listTools) =>
        /\ pc \in {"import", "parsed", "exited"}
        /\ (pc = "parsed" => ENABLED ThrowMissingApiKey)
        /\ (pc = "exited" => exitCode = 1)
        /\ bound = {}
        /\ ~selected
        /\ transport = "none"
        /\ call.st = "idle"
        /\ lastResult = NoResult

\* the process has ended on an empty key although tools were registered and named
C6_Witness ==
    /\ pc = "exited"
    /\ exitCode = 1
    /\ apiKey = ""
    /\ ~argv.listTools
    /\ \E e \in RegistryEntries(registry) : e.id \in argv.tools

\* C7: with --list-tools the output has exactly one block per registry id,
\* carrying that tool's enabled-by-default flag, and the process exits with
\* status 0 whatever EXA_API_KEY and --tools are, binding no tool and opening
\* no transport.
C7_ListToolsOutput ==
    argv.listTools =>
        /\ pc \in {"import", "parsed", "exited"}
        /\ (pc = "parsed" => ENABLED ListTools)
        /\ (pc # "exited" => stdout = <<>>)
        /\ (pc = "exited" =>
              /\ exitCode = 0
              /\ Len(stdout) = Cardinality(RegistryIds(registry))
              /\ \A e \in RegistryEntries(registry) :
                    \E i \in 1..Len(stdout) :
                       /\ stdout[i].id = e.id
                       /\ stdout[i].enabledByDefault = (IF e.enabled THEN "Yes" ELSE "No")
                       /\ \A j \in 1..Len(stdout) : stdout[j].id = e.id => j = i)
        /\ bound = {}
        /\ ~selected
        /\ transport = "none"

\* a listing of one enabled and one disabled tool, without an API key, with --tools
C7_Witness ==
    /\ pc = "exited"
    /\ argv.listTools
    /\ apiKey = "unset"
    /\ argv.tools # {}
    /\ exitCode = 0
    /\ \E i, j \in 1..Len(stdout) :
          stdout[i].enabledByDefault = "Yes" /\ stdout[j].enabledByDefault = "No"

\* C8: the registry holds, for each id ever registered, exactly the spec of
\* the last registration under that id, one entry per id; registering does
\* not end the process; and the set of registered ids never shrinks.
C8_RegistryLastWriteWins ==
    /\ [](/\ RegistryEntries(registry) = lastReg
          /\ Len(registry) = Cardinality(RegistryIds(registry))
          /\ (pc = "import" => exitCode = -1))
    /\ [][RegistryIds(registry) \subseteq RegistryIds(registry')]_vars

\* a registration has replaced a different spec and the server went on to serve
C8_Witness ==
    /\ overwrote
    /\ Len(registry) = MaxTools
    /\ pc = "serving"

-----------------------------------------------------------------------------
(* The caching server (index.ts 0.1.0): one "search" tool served by a       *)
(* CallToolRequestSchema handler, a shared axios instance, recentSearches   *)

\* DEFAULT_NUM_RESULTS of the 0.1.0 server
V1_DEFAULT_NUM_RESULTS == 10

MAX_CACHED_SEARCHES == 5

\* request.params.arguments: absent, or an object with these two properties
ArgShapes ==
    {[obj |-> FALSE, query |-> JsUndefined, numResults |-> JsUndefined]}
    \cup
    [obj : {TRUE},
     query : {JsUndefined, JsNumber(7)} \cup {JsString(q) : q \in Queries},
     numResults : {JsUndefined, JsNumber(0), JsNumber(3), JsString("3")}]

\* names a tools/call request may carry
CallNames == {"search", "other"}

\* isValidSearchArgs, broken: the numResults test is missing
isValidSearchArgsQueryOnly(args) ==
    /\ args.obj
    /\ args.query.t = "string"

isValidSearchArgs(args) ==
    /\ args.obj
    /\ args.query.t = "string"
    /\ (args.numResults.t = "undefined" \/ args.numResults.t = "number")

\* the searchRequest the 0.1.0 handler builds
SearchRequestV1(args) ==
    [query |-> args.query.s,
     numResults |-> NumResultsOr(args.numResults, V1_DEFAULT_NUM_RESULTS)]

NoRequest == [query |-> "", numResults |-> 0]

\* the cache insertion, broken: the length test is off by one
CacheInsertOffByOne(cache, entry) ==
    LET grown == <<entry>> \o cache
    IN  IF Len(grown) > MAX_CACHED_SEARCHES + 1
        THEN SubSeq(grown, 1, Len(grown) - 1)
        ELSE grown

\* the cache insertion, broken: push and shift in place of unshift and pop
CacheInsertAtEnd(cache, entry) ==
    LET grown == cache \o <<entry>>
    IN  IF Len(grown) > MAX_CACHED_SEARCHES
        THEN SubSeq(grown, 2, Len(grown))
        ELSE grown

\* recentSearches.unshift(entry); if (length > MAX_CACHED_SEARCHES) pop()
CacheInsert(cache, entry) ==
    LET grown == <<entry>> \o cache
    IN  IF Len(grown) > MAX_CACHED_SEARCHES
        THEN SubSeq(grown, 1, Len(grown) - 1)
        ELSE grown

\* the catch block of the 0.1.0 handler: an axios error becomes a returned
\* error text without the status, anything else is thrown on
CatchV1(o) ==
    IF o.kind = "axios"
    THEN Returned(<<"Exa API error: ">> \o ErrorMessage(o), TRUE, o)
    ELSE Thrown(o.message, "Error", o)

\* the upstream outcomes of the 0.1.0 server: it relays response.data without
\* looking into it, so one successful body stands for all, and its axios
\* instance sets no timeout, so no request ends on the 25000 ms timeout
OutcomesV1 ==
    {o \in Outcomes :
        /\ (o.kind = "ok" => o.body = "nonempty")
        /\ o.message # <<"timeout of 25000ms exceeded">>}

InitV1 ==
    /\ pc = "v1_start"
    /\ registry = <<>>
    /\ lastReg = {}
    /\ overwrote = FALSE
    /\ argv = [tools |-> {}, listTools |-> FALSE]
    /\ apiKey \in {"unset", "", "key"}
    /\ stdout = <<>>
    /\ stderr = <<>>
    /\ exitCode = -1
    /\ bound = {}
    /\ registeredTools = <<>>
    /\ selected = FALSE
    /\ selector = "none"
    /\ disabledTools = {}
    /\ transport = "none"
    /\ call = IdleCall
    /\ lastResult = NoResult
    /\ CacheUnused
    /\ HandlersIdle

\* module top level: the API key check, then new ExaServer() sets the handlers
StartV1 ==
    /\ pc = "v1_start"
    /\ IF ApiKeyMissing(apiKey)
       THEN /\ exitCode' = 1
            /\ pc' = "exited"
            /\ bound' = bound
       ELSE /\ exitCode' = exitCode
            /\ pc' = "v1_run"
            /\ bound' = {"search"}
    /\ UNCHANGED <<handlerVars, registry, lastReg, overwrote, argv, apiKey, stdout, stderr,
                   registeredTools, selected, selector, disabledTools, transport,
                   call, lastResult, recentSearches, inflight>>

\* run(): await this.server.connect(transport)
RunV1 ==
    /\ pc = "v1_run"
    /\ transport' = "connected"
    /\ pc' = "v1_serving"
    /\ stderr' = Append(stderr, ConsoleError(<<"Exa Search MCP server running on stdio">>))
    /\ UNCHANGED <<handlerVars, registry, lastReg, overwrote, argv, apiKey, stdout, exitCode,
                   bound, registeredTools, selected, selector, disabledTools,
                   call, lastResult, recentSearches, inflight>>

\* the CallToolRequestSchema handler up to its await: the name check, the
\* argument check, the request, the POST on the shared axios instance
CallToolV1(slot, name, args) ==
    /\ pc = "v1_serving"
    /\ inflight[slot].st = "idle"
    /\ IF name # "search"
       THEN /\ lastResult' = Thrown(<<"Unknown tool: ", name>>, "MethodNotFound", NoOutcome)
            /\ inflight' = inflight
       ELSE IF ~isValidSearchArgs(args)
       THEN /\ lastResult' = Thrown(<<"Invalid search arguments">>, "InvalidParams", NoOutcome)
            /\ inflight' = inflight
       ELSE /\ inflight' = [inflight EXCEPT ![slot] =
                               [st |-> "await", searchRequest |-> SearchRequestV1(args)]]
            /\ lastResult' = lastResult
    /\ UNCHANGED <<handlerVars, pc, registry, lastReg, overwrote, argv, apiKey, stdout, stderr,
                   exitCode, bound, registeredTools, selected, selector,
                   disabledTools, transport, call, recentSearches>>

\* the POST of one suspended call settles and its handler runs to the end
SettleV1(slot, o) ==
    /\ pc = "v1_serving"
    /\ inflight[slot].st = "await"
    /\ IF o.kind = "ok"
       THEN /\ recentSearches' =
                 CacheInsert(recentSearches,
                             [query |-> inflight[slot].searchRequest.query,
                              response |-> o.body])
            /\ lastResult' = Returned(Stringify(o.body), FALSE, o)
       ELSE /\ recentSearches' = recentSearches
            /\ lastResult' = CatchV1(o)
    /\ inflight' = [inflight EXCEPT ![slot] = [st |-> "idle", searchRequest |-> NoRequest]]
    /\ UNCHANGED <<handlerVars, pc, registry, lastReg, overwrote, argv, apiKey, stdout, stderr,
                   exitCode, bound, registeredTools, selected, selector,
                   disabledTools, transport, call>>

\* uris a resources/read request may carry, split where the regular
\* expression splits them: the part before the digits and the rest
ResourceUris ==
    {<<"exa://searches/", ToString(i)>> : i \in 0..MAX_CACHED_SEARCHES}
    \cup {<<"exa://searches/", "x">>, <<"exa://other/", "0">>}

\* request.params.uri.match(/^exa:\/\/searches\/(\d+)$/)
MatchesSearchUri(uri) ==
    /\ uri[1] = "exa://searches/"
    /\ \E i \in 0..MAX_CACHED_SEARCHES : uri[2] = ToString(i)

\* parseInt(match[1])
ParseInt(digits) == CHOOSE i \in 0..MAX_CACHED_SEARCHES : ToString(i) = digits

\* the ListResourcesRequestSchema handler: one resource per cached search,
\* its uri built from the zero-based index
ListResources(cache) ==
    [i \in 1..Len(cache) |->
        [uri |-> <<"exa://searches/", ToString(i - 1)>>,
         name |-> <<"Recent search: ", cache[i].query>>]]

\* the ReadResourceRequestSchema handler, broken: the index counts from one
ReadResourceOneBased(cache, uri) ==
    IF ~MatchesSearchUri(uri)
    THEN Thrown(<<"Unknown resource: ">> \o uri, "InvalidRequest", NoOutcome)
    ELSE LET index == ParseInt(uri[2])
         IN  IF index = 0 \/ index > Len(cache)
             THEN Thrown(<<"Search result not found: ", ToString(index)>>,
                         "InvalidRequest", NoOutcome)
             ELSE Returned(Stringify(cache[index].response), FALSE, NoOutcome)

\* the ReadResourceRequestSchema handler
ReadResource(cache, uri) ==
    IF ~MatchesSearchUri(uri)
    THEN Thrown(<<"Unknown resource: ">> \o uri, "InvalidRequest", NoOutcome)
    ELSE LET index == ParseInt(uri[2])
         IN  IF index + 1 > Len(cache)
             THEN Thrown(<<"Search result not found: ", ToString(index)>>,
                         "InvalidRequest", NoOutcome)
             ELSE Returned(Stringify(cache[index + 1].response), FALSE, NoOutcome)

\* a resources/read request is served
ReadResourceV1(uri) ==
    /\ pc = "v1_serving"
    /\ lastResult' = ReadResource(recentSearches, uri)
    /\ UNCHANGED <<handlerVars, pc, registry, lastReg, overwrote, argv, apiKey,
                   stdout, stderr, exitCode, bound, registeredTools, selected, selector,
                   disabledTools, transport, call, recentSearches, inflight>>

NextV1 ==
    \/ StartV1
    \/ RunV1
    \/ \E uri \in ResourceUris : ReadResourceV1(uri)
    \/ \E slot \in 1..MaxInFlight, name \in CallNames, args \in ArgShapes :
          CallToolV1(slot, name, args)
    \/ \E slot \in 1..MaxInFlight, o \in OutcomesV1 : SettleV1(slot, o)

SpecV1 == InitV1 /\ [][NextV1]_vars

-----------------------------------------------------------------------------
(* Claims about failures inside a tool call *)

\* C9: whatever fails inside the tool logic (an upstream transport or HTTP
\* error, or any other error), the call ends by returning a result with
\* isError = true and a text message, never by throwing.
C9_NoExceptionEscapes ==
    lastResult.cause.kind \in {"axios", "generic"} =>
        /\ lastResult.via = "return"
        /\ lastResult.isError
        /\ Len(lastResult.text) > 0

\* C10: a call whose upstream POST fails returns isError = true with a text
\* that shows the HTTP status, or "unknown" when there was no response, and
\* carries the upstream error message when there is one, else the transport
\* error message.
C10_UpstreamFailureReported ==
    lastResult.cause.kind = "axios" =>
        LET o == lastResult.cause
            text == lastResult.text
        IN  /\ lastResult.via = "return"
            /\ lastResult.isError
            /\ (o.status # 0 => Contains(text, ToString(o.status)))
            /\ (o.status = 0 => Contains(text, "unknown"))
            /\ (o.body = "message" => Contains(text, UpstreamMessage))
            /\ (o.body # "message" =>
                  /\ Len(text) >= Len(o.message)
                  /\ SubSeq(text, Len(text) - Len(o.message) + 1, Len(text)) = o.message)

-----------------------------------------------------------------------------
(* The registry tools' handlers on a serving server *)

\* the registration units of the repository's six tool modules
RepositoryTools ==
    <<[id |-> "web_search", name |-> "web_search", enabled |-> TRUE],
      [id |-> "research_paper_search", name |-> "research_paper_search", enabled |-> TRUE],
      [id |-> "twitter_search", name |-> "twitter_search", enabled |-> FALSE],
      [id |-> "company_research", name |-> "company_research", enabled |-> FALSE],
      [id |-> "crawling", name |-> "crawling", enabled |-> FALSE],
      [id |-> "competitor_finder", name |-> "competitor_finder", enabled |-> FALSE]>>

\* a server that registered the first n tools, was started with --tools
\* naming all of them, and is connected
ServingWith(n) ==
    /\ pc = "serving"
    /\ registry = SubSeq(RepositoryTools, 1, n)
    /\ lastReg = RegistryEntries(registry)
    /\ overwrote = FALSE
    /\ argv = [tools |-> RegistryIds(registry), listTools |-> FALSE]
    /\ apiKey = "key"
    /\ stdout = <<>>
    /\ stderr = <<>>
    /\ exitCode = -1
    /\ bound = SetupTools(registry, argv.tools, {}).bound
    /\ registeredTools = SetupTools(registry, argv.tools, {}).registeredTools
    /\ selected = TRUE
    /\ selector = "setupTools"
    /\ disabledTools = {}
    /\ transport = "connected"
    /\ call = IdleCall
    /\ lastResult = NoResult
    /\ CacheUnused
    /\ HandlersIdle

\* a tools/call request for a bound tool arrives and its handler runs up to
\* its await
HandlerCall(slot, tool, args) ==
    /\ pc = "serving"
    /\ transport = "connected"
    /\ tool \in Dispatchable
    /\ calls[slot].st = "idle"
    /\ calls' = [calls EXCEPT ![slot] = CallUpToAwait(tool, args, "")]
    /\ UNCHANGED <<pc, registry, lastReg, overwrote, argv, apiKey, stdout, stderr,
                   exitCode, bound, registeredTools, selected, selector,
                   disabledTools, transport, call, lastResult, recentSearches,
                   inflight, finished, activeRequests>>

\* the post of one suspended call settles and its handler runs to its return
HandlerResume(slot, o) ==
    /\ pc = "serving"
    /\ calls[slot].st = "await"
    /\ finished' = CallReturned(calls, slot, o)
    /\ lastResult' = finished'.result
    /\ calls' = [calls EXCEPT ![slot] = IdleSlot]
    /\ UNCHANGED <<pc, registry, lastReg, overwrote, argv, apiKey, stdout, stderr,
                   exitCode, bound, registeredTools, selected, selector,
                   disabledTools, transport, call, recentSearches, inflight,
                   activeRequests>>

\* one call at a time, every tool of the repository, every argument shape
InitReq == ServingWith(Len(RepositoryTools))

NextReq ==
    \/ \E tool \in Dispatchable : \E args \in ArgsOf(tool) : HandlerCall(1, tool, args)
    \/ \E o \in Outcomes : HandlerResume(1, o)

SpecReq == InitReq /\ [][NextReq]_vars

\* concurrent calls of the first tools of the repository
InitCalls == ServingWith(MaxTools)

NextCalls ==
    \/ \E slot \in 1..MaxInFlight, tool \in ToolIds :
          \E args \in ConcurrentArgsOf(tool) : HandlerCall(slot, tool, args)
    \/ \E slot \in 1..MaxInFlight, o \in Outcomes : HandlerResume(slot, o)

SpecCalls == InitCalls /\ [][NextCalls]_vars

-----------------------------------------------------------------------------
(* Claims about one handler call *)

\* a handler call has returned
SomeCallFinished == finished.tool # ""

\* C11: for every tool, a call whose upstream response succeeds with an
\* empty result list (results: []) or without a result list returns the
\* tool's "no results" guidance text, with no isError flag, and not the
\* serialized response.
C11_SoftEmptyResult ==
    (/\ SomeCallFinished
     /\ finished.response.outcome.kind = "ok"
     /\ finished.response.outcome.body \in {"empty", "noresults"}) =>
        /\ finished.result.via = "return"
        /\ ~finished.result.isError
        /\ finished.result.text = <<NoResultsText(finished.tool)>>

\* C12: every handler call has issued exactly one POST when it returns, on
\* the success, soft-empty and error paths alike, and a call still suspended
\* at its await has issued exactly one.
C12_ExactlyOnePost ==
    /\ SomeCallFinished => finished.posts = 1
    /\ \A slot \in 1..MaxInFlight :
          /\ calls[slot].st = "await" => calls[slot].posts = 1
          /\ calls[slot].st = "idle" => calls[slot].posts = 0

\* a company_research call whose post was refused with an HTTP error has
\* returned after one post
C12_Witness ==
    /\ finished.tool = "company_research"
    /\ finished.response.outcome.kind = "axios"
    /\ finished.response.outcome.status = 429
    /\ finished.result.isError
    /\ finished.posts = 1

-----------------------------------------------------------------------------
(* Handler calls in flight *)

\* the slots whose call is suspended at its await
InFlight == {s \in 1..MaxInFlight : calls[s].st = "await"}

-----------------------------------------------------------------------------
(* The 0.2.1 server (index.ts 0.2.1): one "search" tool whose handler       *)
(* tracks its calls in activeRequests                                       *)

\* values of `search-${Date.now()}-${Math.random()...}`: two calls may draw
\* the same one
RequestIds == {"search-1700000000000-a1b2c", "search-1700000000000-d3e4f"}

\* the finally block, broken: the id is released on the success path only
ActiveAfterReturnOnSuccess(active, requestId, o) ==
    IF o.kind = "ok" THEN active \ {requestId} ELSE active

\* the finally block: this.activeRequests.delete(requestId), whatever the
\* try and catch blocks did
ActiveAfterReturn(active, requestId, o) == active \ {requestId}

\* the line the finally block logs
FinalizedLine(active) ==
    Line("log", <<"Request finalized, ", ToString(Cardinality(active)),
                  " active requests remaining">>)

InitV2 ==
    /\ pc = "v2_start"
    /\ registry = <<>>
    /\ lastReg = {}
    /\ overwrote = FALSE
    /\ argv = [tools |-> {}, listTools |-> FALSE]
    /\ apiKey \in {"unset", "", "key"}
    /\ stdout = <<>>
    /\ stderr = <<>>
    /\ exitCode = -1
    /\ bound = {}
    /\ registeredTools = <<>>
    /\ selected = FALSE
    /\ selector = "none"
    /\ disabledTools = {}
    /\ transport = "none"
    /\ call = IdleCall
    /\ lastResult = NoResult
    /\ CacheUnused
    /\ HandlersIdle

\* module top level: the API key check, then new ExaServer()
StartV2 ==
    /\ pc = "v2_start"
    /\ IF ApiKeyMissing(apiKey)
       THEN /\ exitCode' = 1
            /\ pc' = "exited"
       ELSE /\ exitCode' = exitCode
            /\ pc' = "v2_run"
    /\ stderr' = IF ApiKeyMissing(apiKey)
                  THEN stderr
                  ELSE Append(stderr, Log(<<"Server initialized">>))
    /\ UNCHANGED <<handlerVars, registry, lastReg, overwrote, argv, apiKey,
                   stdout, bound, registeredTools, selected, selector,
                   disabledTools, transport, call, lastResult, recentSearches,
                   inflight>>

\* run(): this.setupTools() binds "search", then the transport is connected;
\* a connect that rejects ends the process with process.exit(1)
RunV2(connects) ==
    /\ pc = "v2_run"
    /\ bound' = ServerTool(bound, "search")
    /\ IF connects
       THEN /\ transport' = "connected"
            /\ pc' = "v2_serving"
            /\ exitCode' = exitCode
       ELSE /\ transport' = "failed"
            /\ pc' = "exited"
            /\ exitCode' = 1
    /\ stderr' = stderr
                  \o <<Log(<<"Search tool registered">>),
                       Log(<<"Starting Exa MCP server...">>)>>
                  \o IF connects
                     THEN <<Log(<<"Exa Search MCP server running on stdio">>)>>
                     ELSE <<Log(<<"Server initialization error: ", "connect failed">>),
                            Log(<<"Fatal server error: ", "connect failed">>)>>
    /\ UNCHANGED <<handlerVars, registry, lastReg, overwrote, argv, apiKey,
                   stdout, registeredTools, selected, selector, disabledTools,
                   call, lastResult, recentSearches, inflight>>

\* the search handler from its first statement to its await
CallToolV2(slot, args, requestId) ==
    /\ pc = "v2_serving"
    /\ calls[slot].st = "idle"
    /\ activeRequests' = activeRequests \cup {requestId}
    /\ calls' = [calls EXCEPT ![slot] = CallUpToAwait("search", args, requestId)]
    /\ UNCHANGED <<pc, registry, lastReg, overwrote, argv, apiKey, stdout, stderr,
                   exitCode, bound, registeredTools, selected, selector,
                   disabledTools, transport, call, lastResult, recentSearches,
                   inflight, finished>>

\* the post of one suspended call settles: try or catch, then finally
SettleV2(slot, o) ==
    /\ pc = "v2_serving"
    /\ calls[slot].st = "await"
    /\ activeRequests' = ActiveAfterReturn(activeRequests, calls[slot].requestId, o)
    /\ finished' = [CallReturned(calls, slot, o) EXCEPT
                       !.log = @ \o <<FinalizedLine(activeRequests')>>]
    /\ lastResult' = finished'.result
    /\ calls' = [calls EXCEPT ![slot] = IdleSlot]
    /\ UNCHANGED <<pc, registry, lastReg, overwrote, argv, apiKey, stdout, stderr,
                   exitCode, bound, registeredTools, selected, selector,
                   disabledTools, transport, call, recentSearches, inflight>>

NextV2 ==
    \/ StartV2
    \/ \E connects \in BOOLEAN : RunV2(connects)
    \/ \E slot \in 1..MaxInFlight, requestId \in RequestIds :
          \E args \in ConcurrentArgsOf("search") : CallToolV2(slot, args, requestId)
    \/ \E slot \in 1..MaxInFlight, o \in Outcomes : SettleV2(slot, o)

SpecV2 == InitV2 /\ [][NextV2]_vars

\* C14: a call's correlation id is in activeRequests right after the call
\* starts and is out of it right after the call returns, on the success,
\* soft-empty, axios-error and generic-error paths alike; whenever no call is
\* in flight the set is empty.
C14_ActiveRequestsReleased ==
    /\ [][\A s \in 1..MaxInFlight :
            (calls[s].st = "idle" /\ calls'[s].st = "await") =>
                calls'[s].requestId \in activeRequests']_vars
    /\ [][\A s \in InFlight :
            calls'[s].st = "idle" => calls[s].requestId \notin activeRequests']_vars
    /\ [](InFlight = {} => activeRequests = {})
    /\ [](activeRequests \subseteq {calls[s].requestId : s \in InFlight})

\* a call has returned on the generic-error path, its finally block logged
\* that 0 requests remain, and the set is empty again
C14_Witness ==
    /\ pc = "v2_serving"
    /\ InFlight = {}
    /\ activeRequests = {}
    /\ finished.response.outcome.kind = "generic"
    /\ \E i \in 1..Len(finished.log) :
          finished.log[i].msg = <<"Request finalized, ", "0", " active requests remaining">>

-----------------------------------------------------------------------------
(* Claims about the recent-search cache of the 0.1.0 server *)

\* the 0.1.0 calls suspended at their await
InFlightV1 == {s \in 1..MaxInFlight : inflight[s].st = "await"}

\* C15: at every suspension point recentSearches holds at most 5 entries,
\* under every interleaving of concurrent search calls; an insertion puts the
\* new entry at the front, keeps the order of the others and drops the last
\* one when the length would exceed 5.
C15_BoundedRecentSearches ==
    /\ [](Len(recentSearches) <= MAX_CACHED_SEARCHES)
    /\ [][recentSearches' # recentSearches =>
            /\ Len(recentSearches') =
                   (IF Len(recentSearches) < MAX_CACHED_SEARCHES
                    THEN Len(recentSearches) + 1 ELSE MAX_CACHED_SEARCHES)
            /\ \A i \in 2..Len(recentSearches') :
                   recentSearches'[i] = recentSearches[i - 1]]_vars

\* the cache is full, holds searches for different queries, and every call
\* slot is suspended at its await
C15_Witness ==
    /\ Len(recentSearches) = MAX_CACHED_SEARCHES
    /\ recentSearches[1].query # recentSearches[MAX_CACHED_SEARCHES].query
    /\ InFlightV1 = 1..MaxInFlight

\* the uri under which a listing shows the search at zero-based index k
SearchUri(k) == <<"exa://searches/", ToString(k)>>

\* this step is the successful completion of the search call in slot s
CompletedSearch(s) ==
    /\ inflight[s].st = "await"
    /\ inflight'[s].st = "idle"
    /\ lastResult'.cause.kind = "ok"

-----------------------------------------------------------------------------
(* Claims about log lines and request construction *)

\* the web-search handlers of the 0.3.2 registry and of the 0.2.1 server,
\* each in its own server
InitSearchTools == InitReq \/ InitV2

NextSearchTools == NextReq \/ NextV2

SpecSearchTools == InitSearchTools /\ [][NextSearchTools]_vars

\* C17: every handler call that returned logged a start line first and a
\* completion line or an error line after it, on the non-empty success,
\* soft-empty, upstream-error and generic-error paths alike.
C17_StartAndCompletionLogged ==
    SomeCallFinished =>
        /\ Len(finished.log) >= 2
        /\ finished.log[1].fn = "start"
        /\ \E i \in 2..Len(finished.log) : finished.log[i].fn \in {"complete", "error"}

\* C18: a web-search call (web_search, or the 0.2.1 search tool) with a
\* query and every optional argument left out posts a request with type
\* "auto", numResults 5, contents.text.maxCharacters 3000 and
\* contents.livecrawl "always".
C18_WebSearchDefaults ==
    LET Defaults(c) ==
            (/\ c.tool \in {"web_search", "search"}
             /\ c.args.numResults = JsUndefined
             /\ c.args.livecrawl = JsUndefined) =>
                /\ c.request.query = c.args.query
                /\ c.request.type = JsString("auto")
                /\ c.request.numResults = JsNumber(5)
                /\ c.request.maxCharacters = JsNumber(3000)
                /\ c.request.livecrawl = JsString("always")
    IN  /\ Defaults(finished)
        /\ \A s \in InFlight : Defaults(calls[s])

\* a web_search call with only a query has returned the serialized response
C18_Witness ==
    /\ finished.tool = "web_search"
    /\ finished.args = WithQuery("q1")
    /\ finished.request.numResults = JsNumber(5)
    /\ finished.response.outcome.body = "nonempty"
    /\ finished.result.via = "return"

\* C19: with numResults left out, the posted request asks for 10 results in
\* company_research and competitor_finder and for 5 in web_search,
\* twitter_search and research_paper_search.
C19_PerToolDefaultCount ==
    (SomeCallFinished /\ finished.tool # "crawling"
        /\ finished.args.numResults = JsUndefined) =>
        finished.request.numResults =
            (IF finished.tool \in {"company_research", "competitor_finder"}
             THEN JsNumber(10) ELSE JsNumber(5))

\* C20: a company_research call for "exa.ai" posts a request with category
\* "company", includeDomains ["exa.ai"], and contents.subpages equal to the
\* subpages argument, or 10 when the argument is left out.
C20_CompanyRequest ==
    (finished.tool = "company_research" /\ finished.args.query = JsString("exa.ai")) =>
        /\ finished.request.category = JsString("company")
        /\ finished.request.includeDomains = JsArray(<<"exa.ai">>)
        /\ finished.request.subpages =
               (IF finished.args.subpages = JsUndefined
                THEN JsNumber(10) ELSE finished.args.subpages)

-----------------------------------------------------------------------------
(* Per-call isolation, in the registry handlers and in the 0.1.0 handler    *)
(* with its shared axios instance                                           *)

InitIsolation == InitCalls \/ InitV1

NextIsolation == NextCalls \/ NextV1

SpecIsolation == InitIsolation /\ [][NextIsolation]_vars

\* C13: under every interleaving of in-flight calls, a call returns what its
\* handler makes of the answer to the request built from its own arguments,
\* and no step of one call (its start, its response, its failure) changes
\* what another suspended call holds.  In the 0.1.0 server, whose calls share
\* one axios instance and the cache, a completing call caches its response
\* under its own query and returns that response, and a failing call leaves
\* the cache as it was.
C13_PerCallIsolation ==
    /\ [](SomeCallFinished =>
            /\ finished.request = RequestOf(finished.tool, finished.args)
            /\ finished.response.for = finished.request
            /\ finished.result = HandlerReturn(finished.tool, finished.response.outcome))
    /\ [](\A s \in InFlight :
            calls[s].request = RequestOf(calls[s].tool, calls[s].args))
    /\ [][\A s \in InFlight : calls'[s].st = "await" => calls'[s] = calls[s]]_vars
    /\ [][\A s \in InFlightV1 :
            inflight'[s].st = "await" => inflight'[s] = inflight[s]]_vars
    /\ [][\A s \in InFlightV1 : CompletedSearch(s) =>
            /\ recentSearches'[1] =
                   [query |-> inflight[s].searchRequest.query,
                    response |-> lastResult'.cause.body]
            /\ lastResult'.text = Stringify(recentSearches'[1].response)]_vars
    /\ [][\A s \in InFlightV1 :
            (inflight'[s].st = "idle" /\ ~CompletedSearch(s)) =>
                recentSearches' = recentSearches]_vars

\* a web_search call for one query has failed while a web_search call for
\* another query is still suspended
C13_Witness ==
    /\ finished.tool = "web_search"
    /\ finished.response.outcome.kind \in {"axios", "generic"}
    /\ \E s \in InFlight :
          /\ calls[s].tool = "web_search"
          /\ calls[s].args.query # finished.args.query

-----------------------------------------------------------------------------
(* Further claims about request construction *)

\* C21: for every query, a full URL included, the company_research request
\* carries includeDomains = [domain], the domain being the hostname of the
\* query without "www.", and not the query as it was given.
C21_IncludeDomainsIsDomain ==
    finished.tool = "company_research" =>
        finished.request.includeDomains = JsArray(<<DomainOf(finished.args.query.s)>>)

-----------------------------------------------------------------------------
(* Claims about argument validation in the 0.1.0 handler *)

\* arguments that fail validation as the claim words it: no arguments object,
\* query missing or not a string, numResults present but not a number
FailsValidation(args) ==
    \/ ~args.obj
    \/ args.query.t # "string"
    \/ args.numResults.t \notin {"undefined", "number"}

\* the step rejects the call: an error goes to the caller, no request is
\* posted and the cache is as before
RejectedWithoutEffect ==
    /\ lastResult'.via = "throw"
    /\ lastResult'.err \in {"MethodNotFound", "InvalidParams"}
    /\ inflight' = inflight
    /\ recentSearches' = recentSearches

\* C22: in every serving state, a tools/call that names an unknown tool or
\* whose arguments fail validation is answered, and answered only by an error
\* to the caller that posts no upstream request and leaves the recent-search
\* cache as it was; every request that was posted was built from arguments
\* that pass validation.
C22_ValidationBeforeEffects ==
    /\ pc = "v1_serving" =>
          \A slot \in 1..MaxInFlight, name \in CallNames, args \in ArgShapes :
             (inflight[slot].st = "idle" /\ (name # "search" \/ FailsValidation(args))) =>
                 /\ ENABLED CallToolV1(slot, name, args)
                 /\ ~ ENABLED (CallToolV1(slot, name, args) /\ ~RejectedWithoutEffect)
    /\ \A s \in InFlightV1 :
          \E args \in ArgShapes :
             /\ ~FailsValidation(args)
             /\ inflight[s].searchRequest = SearchRequestV1(args)

\* a call was rejected for its arguments while another call was suspended and
\* the cache held a search
C22_Witness ==
    /\ lastResult.via = "throw"
    /\ lastResult.err = "InvalidParams"
    /\ InFlightV1 # {}
    /\ Len(recentSearches) > 0

-----------------------------------------------------------------------------
(* Claims about the process streams *)

\* most lines the error stream of one run is followed for
MaxStderr == 2

\* 0.1.0: this.server.onerror = (error) => console.error("[MCP Error]", error),
\* called by the protocol server whenever it reports an error
OnErrorV1 ==
    /\ pc = "v1_serving"
    /\ Len(stderr) < MaxStderr
    /\ stderr' = Append(stderr, ConsoleError(<<"[MCP Error]", "error">>))
    /\ UNCHANGED <<handlerVars, pc, registry, lastReg, overwrote, argv, apiKey,
                   stdout, exitCode, bound, registeredTools, selected, selector,
                   disabledTools, transport, call, lastResult, recentSearches,
                   inflight>>

NextV1Streams == NextV1 \/ OnErrorV1

SpecV1Streams == InitV1 /\ [][NextV1Streams]_vars

\* the line is on the error stream and starts with the debug prefix
Prefixed(line) ==
    /\ line.stream = "stderr"
    /\ Len(line.text) > 0
    /\ line.text[1] = "[EXA-MCP-DEBUG] "

\* C23: in a run that serves calls (not the --list-tools path) the program
\* writes nothing to the standard output, and every diagnostic line it
\* writes, at start-up or through a per-call logger, is on the error stream
\* and starts with [EXA-MCP-DEBUG].
C23_DiagnosticsPrefixedOnStderr ==
    ~argv.listTools =>
        /\ stdout = <<>>
        /\ \A i \in 1..Len(stderr) : Prefixed(stderr[i])
        /\ \A i \in 1..Len(finished.log) :
              Prefixed(RequestLoggerLine(finished.requestId, finished.tool,
                                         finished.log[i]))

-----------------------------------------------------------------------------
(* Further claims about activation selection *)

\* what the selector that ran returns for the registry reg, the include and
\* exclude sets being those of the run
SelectorResult(reg) ==
    IF selector = "registerEnabledTools"
    THEN RegisterEnabledTools(reg, argv.tools, disabledTools, {})
    ELSE SetupTools(reg, argv.tools, {})

\* the registries that hold the entries of reg in some insertion order
Reorderings(reg) ==
    {r \in Registries : RegistryEntries(r) = RegistryEntries(reg)}

\* C24: for fixed include set, exclude set and registry entries the set of
\* enabled ids is the same for every insertion order of the registry; a tool
\* is enabled exactly when the selector enables it in a registry that holds
\* that tool alone; the returned sequence has no duplicates and lists the
\* enabled ids in registry order.
C24_SelectionOrderIndependent ==
    selected =>
        /\ \A r \in Reorderings(registry) :
              LET ids == SelectorResult(r).registeredTools
              IN  {ids[i] : i \in 1..Len(ids)} = RegisteredIds
        /\ \A i \in 1..Len(registry) :
              registry[i].id \in RegisteredIds
                  <=> SelectorResult(<<registry[i]>>).registeredTools = <<registry[i].id>>
        /\ \A i, j \in 1..Len(registeredTools) :
              /\ i # j => registeredTools[i] # registeredTools[j]
              /\ i < j =>
                    \E m, n \in 1..Len(registry) :
                       /\ m < n
                       /\ registry[m].id = registeredTools[i]
                       /\ registry[n].id = registeredTools[j]

C24_Witness ==
    /\ selected
    /\ Len(registeredTools) >= 2
    /\ Cardinality(Reorderings(registry)) >= 2

\* the selection algorithm as the specification states it: with a non-empty
\* include set the listed ids, else the tools enabled by default; then minus
\* the exclude set
SpecEnabled(e, includeIds, excludeIds) ==
    /\ IF includeIds # {} THEN e.id \in includeIds ELSE e.enabled
    /\ e.id \notin excludeIds

SpecSelection(reg, includeIds, excludeIds) ==
    LET chosen == SelectSeq(reg, LAMBDA e : SpecEnabled(e, includeIds, excludeIds))
    IN  [i \in 1..Len(chosen) |-> chosen[i].id]

\* C25: registerEnabledTools(server, includeIds, {}) binds the same tools and
\* returns the same id sequence as setupTools with specifiedTools =
\* includeIds, and what the selector of the run bound and returned is what
\* the specification's algorithm selects.
C25_SelectorsAgree ==
    selected =>
        LET viaSetupTools == SetupTools(registry, argv.tools, {})
            viaRegisterEnabled == RegisterEnabledTools(registry, argv.tools, {}, {})
        IN  /\ viaSetupTools.registeredTools = viaRegisterEnabled.registeredTools
            /\ viaSetupTools.bound = viaRegisterEnabled.bound
            /\ registeredTools = SpecSelection(registry, argv.tools, Exclusions)
            /\ bound = NamesOf(RegisteredIds)
            /\ Exclusions = {} =>
                  /\ registeredTools = viaSetupTools.registeredTools
                  /\ registeredTools = viaRegisterEnabled.registeredTools
                  /\ bound = viaSetupTools.bound
                  /\ bound = viaRegisterEnabled.bound

C25_Witness ==
    /\ selected
    /\ selector = "registerEnabledTools"
    /\ disabledTools = {}
    /\ argv.tools # {}
    /\ Len(registeredTools) >= 1
    /\ Len(registeredTools) < Len(registry)

-----------------------------------------------------------------------------
(* Further claims about the activeRequests set of the 0.2.1 server *)

\* C26: in every state the size of activeRequests is the number of calls that
\* have started and not yet returned.
C26_ActiveRequestsCountsInFlight ==
    Cardinality(activeRequests) = Cardinality(InFlight)

-----------------------------------------------------------------------------
(* The registry-based server started from the repository's tools index: the *)
(* registration units that run are the modules the index imports, in the    *)
(* order of its import statements                                           *)

\* the ids of the repository's tool modules
RepositoryToolIds == {RepositoryTools[i].id : i \in 1..Len(RepositoryTools)}

\* tools/index.ts: imports webSearch, researchPaperSearch, twitterSearch,
\* companyResearch and crawling
ToolsIndex == SubSeq(RepositoryTools, 1, 5)

\* tools/index.ts, earlier version: imports webSearch and researchPaperSearch
ToolsIndexEarlier == SubSeq(RepositoryTools, 1, 2)

ToolsIndexes == {ToolsIndex, ToolsIndexEarlier}

\* what --tools may name: nothing, or one tool module of the repository
InitImports ==
    /\ pc = "import"
    /\ registry = <<>>
    /\ lastReg = {}
    /\ overwrote = FALSE
    /\ argv \in [tools : {{}} \cup {{id} : id \in RepositoryToolIds},
                 listTools : BOOLEAN]
    /\ apiKey \in {"unset", "", "key"}
    /\ stdout = <<>>
    /\ stderr = <<>>
    /\ exitCode = -1
    /\ bound = {}
    /\ registeredTools = <<>>
    /\ selected = FALSE
    /\ selector = "none"
    /\ disabledTools = {}
    /\ transport = "none"
    /\ call = IdleCall
    /\ lastResult = NoResult
    /\ CacheUnused
    /\ HandlersIdle

\* the next import statement of the index runs its module, which registers
\* its tool
ImportModule(index) ==
    /\ Len(registry) < Len(index)
    /\ registry = SubSeq(index, 1, Len(registry))
    /\ Register(index[Len(registry) + 1])

\* every import of the index has run; the top-level code goes on
ImportsDone(index) ==
    /\ registry = index
    /\ ParseArgs

NextImports ==
    \/ \E index \in ToolsIndexes : ImportModule(index)
    \/ \E index \in ToolsIndexes : ImportsDone(index)
    \/ ListTools
    \/ ThrowMissingApiKey
    \/ NewExaServer
    \/ RunSetupTools
    \/ RunConnect
    \/ RunConnectFails
    \/ \E name \in Dispatchable : CallTool(name)
    \/ \E o \in Outcomes : HandlerSettle(o)

SpecImports == InitImports /\ [][NextImports]_vars

\* the ids the --list-tools listing shows
ListedIds == {stdout[i].id : i \in 1..Len(stdout)}

\* C27: once the registration units have run, the registry has an entry for
\* each of the six tool modules of the repository, so the --list-tools
\* listing shows each of them and a run with --tools <id> binds <id>.
C27_EveryToolRegistered ==
    pc # "import" =>
        \A id \in RepositoryToolIds :
           /\ id \in RegistryIds(registry)
           /\ (pc = "exited" /\ exitCode = 0) => id \in ListedIds
           /\ (selected /\ argv.tools = {id}) => id \in bound

-----------------------------------------------------------------------------
(* Claims about dispatch names *)

\* the registry entries the selector enabled whose name is the given one
EnabledWithName(name) ==
    {i \in 1..Len(registry) :
        registry[i].id \in RegisteredIds /\ registry[i].name = name}

\* C28: every registry entry's key equals its name, and after selection no
\* two bound tools share a dispatch name: there are as many bound names as
\* enabled tools, and each bound name belongs to exactly one enabled tool.
C28_DispatchNamesUnique ==
    /\ \A i \in 1..Len(registry) : registry[i].name = registry[i].id
    /\ selected =>
          /\ Cardinality(bound) = Len(registeredTools)
          /\ \A name \in bound : Cardinality(EnabledWithName(name)) = 1

C28_Witness ==
    /\ selected
    /\ Cardinality(bound) >= 2
    /\ Exclusions # {}

-----------------------------------------------------------------------------
(* Claims about the result count *)

\* the registry tools whose schema has numResults
AcceptsNumResults ==
    {"web_search", "research_paper_search", "twitter_search", "competitor_finder"}

\* C29: a tool whose schema has numResults posts the count its caller
\* supplied, 0 included; the tool's default is used only when the caller
\* left numResults out.
C29_NumResultsPassedThrough ==
    (SomeCallFinished /\ finished.tool \in AcceptsNumResults
        /\ finished.args.numResults # JsUndefined) =>
        finished.request.numResults = finished.args.numResults

-----------------------------------------------------------------------------
(* Claims about resource reads in the 0.1.0 server *)

\* the uri is exa://searches/<digits> and its number is an index of the cache
NamesCachedSearch(uri) ==
    /\ uri[1] = "exa://searches/"
    /\ \E i \in 0..(Len(recentSearches) - 1) : uri[2] = ToString(i)

\* the zero-based index such a uri names
IndexNamed(uri) ==
    CHOOSE i \in 0..(Len(recentSearches) - 1) : uri[2] = ToString(i)

\* this step answers a read of uri as the claim says and changes neither the
\* cache nor the calls in flight
ReadAsClaimed(uri) ==
    /\ recentSearches' = recentSearches
    /\ inflight' = inflight
    /\ IF NamesCachedSearch(uri)
       THEN /\ lastResult'.via = "return"
            /\ ~lastResult'.isError
            /\ lastResult'.text =
                   Stringify(recentSearches[IndexNamed(uri) + 1].response)
       ELSE /\ lastResult'.via = "throw"
            /\ lastResult'.err = "InvalidRequest"

====
